---- MODULE Spec2Model ----
(***************************************************************************)
(* Sliding-window-log rate limiter (src/task02.py,                         *)
(* class SlidingWindowRateLimiter).                                        *)
(*                                                                         *)
(* Time is the value of time.perf_counter(): a binary64 floating-point     *)
(* number of seconds.  The model holds the numbers i + f * 2^-53 with a    *)
(* small whole part i and a small count f of units of 2^-53 s, each as the *)
(* integer i * Second + f (see whole and frac).  Sums and differences of   *)
(* times are rounded to binary64 as the program's + and - are.  A deque of *)
(* timestamps is a sequence, head = index 1.                               *)
(* request_history is a function whose DOMAIN is the set of keys present   *)
(* in the dict, so "key absent" and "key mapped to an empty deque" are     *)
(* different states.                                                       *)
(***************************************************************************)
EXTENDS Integers, Sequences, FiniteSets, TLC

\* ---------------------------------------------------------------- bounds
MaxTime == 2        \* the whole seconds of the clock run over 0..MaxTime
MaxWindow == 3      \* window_size is drawn from 1..MaxWindow
MaxRequests == 2    \* max_requests is drawn from 1..MaxRequests
MaxTimeConc == 1    \* the clock of the concurrent runs stops at MaxTimeConc seconds
MaxDelay == 1       \* clock values that may pass inside one record_message call

Users == {"1", "2"}
Fractions == {0, 1} \* the units of 2^-53 s past a whole second that the clock shows
Threads == {"T1", "T2"}
None == -1

VARIABLES
    window_size,      \* self.window_size
    max_requests,     \* self.max_requests
    request_history,  \* self.request_history : key -> deque of timestamps
    clock,            \* the value time.perf_counter() returns now
    last,             \* the call that returned most recently at this clock value, and its result
    recorded,         \* per key, the timestamps record_message appended (see forget_expired)
    denied_oldest,    \* per key, head of the log at the first denial since the last admission
    pc,               \* per thread, the source line it is about to run ("idle": no call)
    t_user,           \* per thread, the user_id argument
    t_now,            \* per thread, the local current_time of can_send_message (line 60)
    t_time,           \* per thread, the local current_time of record_message (line 86)
    t_ref,            \* per thread, what the local user_timestamps of _cleanup_window refers to
    t_deque,          \* per thread, the deque user_timestamps refers to once the dict has dropped it
    t_outcome         \* per thread, how its latest call ended: a return value or an exception

vars == <<window_size, max_requests, request_history, clock, last, recorded,
          denied_oldest, pc, t_user, t_now, t_time, t_ref, t_deque, t_outcome>>

thread_vars == <<pc, t_user, t_now, t_time, t_ref, t_deque, t_outcome>>

\* what the sequential runs observe about calls; not maintained by the threads
observer_vars == <<last, recorded, denied_oldest>>

\* ------------------------------------------------- floating-point arithmetic
\* The number i + f * 2^-53 is held as the integer i * Second + f, with
\* -Second/2 <= f < Second/2: Second stands for the 2^53 units of 2^-53 s in
\* one second.  Every f of the model is far inside that range, so +, - and
\* the order of the integers are +, - and the order of the numbers they hold.
Second == 64

\* the whole part i and the count f of units of 2^-53 of the number held as n
whole(n) == (n + Second \div 2) \div Second
frac(n) == n - whole(n) * Second

\* float(k) for an int k: the conversion Python applies to self.window_size
\* in a sum or difference with a float
float_of_int(k) == k * Second

RECURSIVE bit_length(_)
bit_length(n) == IF n = 0 THEN 0 ELSE 1 + bit_length(n \div 2)

RECURSIVE pow2(_)
pow2(k) == IF k = 0 THEN 1 ELSE 2 * pow2(k - 1)

\* The distance, in units of 2^-53, between the binary64 numbers around x:
\* 2^(e - 52) for 2^e <= |x| < 2^(e + 1), one unit below 1.
spacing(x) ==
    LET a == IF x < 0 THEN -x ELSE x
        floor_a == IF frac(a) >= 0 THEN whole(a) ELSE whole(a) - 1
    IN  pow2(bit_length(floor_a))

\* The binary64 number nearest to the exact value x, ties going to the even
\* significand: what a float operation with exact result x returns.
fl(x) ==
    LET a == IF x < 0 THEN -x ELSE x
        q == spacing(a)
        f == frac(a)
        lower == (f \div q) * q
        upper == lower + q
        r == f % q
        m == IF 2 * r < q THEN lower
             ELSE IF 2 * r > q THEN upper
             ELSE IF (f \div q) % 2 = 0 THEN lower ELSE upper
        y == whole(a) * Second + m
    IN  IF x < 0 THEN -y ELSE y

\* x is a binary64 number
is_float(x) == fl(x) = x

\* float addition and subtraction with exact operands a and b
float_add(a, b) == fl(a + b)
float_sub(a, b) == fl(a - b)

\* the values time.perf_counter() can return
clock_times ==
    {x \in {float_of_int(i) + f : i \in 0..MaxTime, f \in Fractions} : is_float(x)}

\* the clock values after c
later_times(c) == {x \in clock_times : x > c}

\* the clock values from c on that are at most k clock values later
times_within(c, k) ==
    {x \in clock_times : x >= c /\ Cardinality({y \in clock_times : c < y /\ y <= x}) <= k}

\* ------------------------------------------------------- the dict and deque
\* a delete that empties the dict instead of removing one key
dict_del_all(d, k) == <<>>

\* del d[k]
dict_del(d, k) == [x \in DOMAIN d \ {k} |-> d[x]]

\* d[k] = v   (k may be new)
dict_set(d, k, v) == [x \in DOMAIN d \cup {k} |-> IF x = k THEN v ELSE d[x]]

\* appendleft in place of append
deque_appendleft(d, x) == <<x>> \o d

\* deque.append(x): x goes to the right end
deque_append(d, x) == Append(d, x)

\* the loop with an inclusive window edge: a head exactly window_size old is kept
RECURSIVE popleft_expired_strict(_, _, _)
popleft_expired_strict(user_timestamps, current_time, w) ==
    IF user_timestamps # <<>> /\ Head(user_timestamps) < float_sub(current_time, float_of_int(w))
    THEN popleft_expired_strict(Tail(user_timestamps), current_time, w)
    ELSE user_timestamps

\* the loop replaced by a clear(): an expired head empties the whole deque
popleft_expired_all(user_timestamps, current_time, w) ==
    IF user_timestamps # <<>> /\ Head(user_timestamps) <= float_sub(current_time, float_of_int(w))
    THEN <<>>
    ELSE user_timestamps

\* the while loop of _cleanup_window: popleft while the head has left the window
RECURSIVE popleft_expired(_, _, _)
popleft_expired(user_timestamps, current_time, w) ==
    IF user_timestamps # <<>> /\ Head(user_timestamps) <= float_sub(current_time, float_of_int(w))
    THEN popleft_expired(Tail(user_timestamps), current_time, w)
    ELSE user_timestamps

\* the cleanup without lines 51-52: an emptied deque stays in the dict
cleanup_window_keep_empty(h, user_id, current_time) ==
    IF user_id \notin DOMAIN h
    THEN h
    ELSE dict_set(h, user_id, popleft_expired(h[user_id], current_time, window_size))

\* _cleanup_window(user_id, current_time): the dict it leaves behind
cleanup_window(h, user_id, current_time) ==
    IF user_id \notin DOMAIN h
    THEN h
    ELSE LET user_timestamps == popleft_expired(h[user_id], current_time, window_size)
         IN  IF user_timestamps = <<>>
             THEN dict_del(h, user_id)
             ELSE dict_set(h, user_id, user_timestamps)

\* the decision with <= in place of < at line 73
can_send_decision_inclusive(h, user_id) ==
    IF user_id \notin DOMAIN h \/ h[user_id] = <<>>
    THEN TRUE
    ELSE Len(h[user_id]) <= max_requests

\* the return value of can_send_message, evaluated on the dict after its cleanup
can_send_decision(h, user_id) ==
    IF user_id \notin DOMAIN h \/ h[user_id] = <<>>
    THEN TRUE
    ELSE Len(h[user_id]) < max_requests

\* the wait computed from the newest timestamp instead of the oldest
wait_time_newest(h, user_id, current_time) ==
    LET newest_timestamp == h[user_id][Len(h[user_id])]
        time_to_wait == float_sub(float_add(newest_timestamp, float_of_int(window_size)), current_time)
    IN  IF time_to_wait > 0 THEN time_to_wait ELSE 0

\* lines 118-129 of time_until_next_allowed: the wait when the limit is used up
wait_time(h, user_id, current_time) ==
    LET oldest_timestamp == Head(h[user_id])
        time_to_allow == float_add(oldest_timestamp, float_of_int(window_size))
        time_to_wait == float_sub(time_to_allow, current_time)
    IN  IF time_to_wait > 0 THEN time_to_wait ELSE 0

\* ------------------------------------------------------------ observations
\* The history of appended timestamps, kept apart from the limiter's own deques.
\* A timestamp t <= now - window_size can never be inside a window again (the
\* clock does not go back), so the history forgets it; the newest timestamp is
\* always kept, so that a key that was ever recorded has a non-empty history.
forget_expired(s, now) ==
    IF s = <<>>
    THEN s
    ELSE SelectSeq(SubSeq(s, 1, Len(s) - 1), LAMBDA t : t > now - float_of_int(window_size))
            \o <<s[Len(s)]>>

\* how many timestamps of s lie in the window (now - window_size, now]
in_window_count(s, now) ==
    Cardinality({i \in 1..Len(s) : s[i] > now - float_of_int(window_size) /\ s[i] <= now})

NoCall == [op |-> "none", user |-> "", result |-> FALSE, wait |-> None,
           raised |-> "", now |-> None, stamp |-> None,
           active |-> 0, seen |-> FALSE, denied |-> None]

\* What a call for key u that read the clock at t returned: result (the bool of
\* can_send_message and record_message), wait (the number of
\* time_until_next_allowed), raised (the exception that left the call), stamp
\* (the timestamp record_message appended).  active, seen and denied describe
\* the key when the call began: the appended timestamps inside (t - window_size, t],
\* whether the key was ever recorded, and denied_oldest.
Returned(op, u, r, w, ex, t, s) ==
    [op |-> op, user |-> u, result |-> r, wait |-> w, raised |-> ex, now |-> t, stamp |-> s,
     active |-> in_window_count(recorded[u], t),
     seen |-> recorded[u] # <<>>,
     denied |-> denied_oldest[u]]

\* ------------------------------------------------------------------- Init
\* __init__(window_size, max_requests): empty dict
Init ==
    /\ window_size \in 1..MaxWindow
    /\ max_requests \in 1..MaxRequests
    /\ request_history = <<>>
    /\ clock = 0
    /\ last = NoCall
    /\ recorded = [u \in Users |-> <<>>]
    /\ denied_oldest = [u \in Users |-> None]
    /\ pc = [t \in Threads |-> "idle"]
    /\ t_user = [t \in Threads |-> ""]
    /\ t_now = [t \in Threads |-> None]
    /\ t_time = [t \in Threads |-> None]
    /\ t_ref = [t \in Threads |-> "none"]
    /\ t_deque = [t \in Threads |-> <<>>]
    /\ t_outcome = [t \in Threads |-> ""]

\* Time passes between two calls, to the next clock value; the caller
\* has consumed the previous return value.
Tick ==
    /\ later_times(clock) # {}
    /\ clock' = CHOOSE x \in later_times(clock) : \A y \in later_times(clock) : x <= y
    /\ last' = NoCall
    /\ recorded' = [u \in Users |-> forget_expired(recorded[u], clock')]
    /\ UNCHANGED <<window_size, max_requests, request_history, denied_oldest, thread_vars>>

\* can_send_message(user_id), one call run to completion
can_send_message(user_id) ==
    LET current_time == clock
        h == cleanup_window(request_history, user_id, current_time)
    IN  /\ request_history' = h
        /\ last' = Returned("can_send_message", user_id, can_send_decision(h, user_id),
                            None, "", current_time, None)
        /\ UNCHANGED <<window_size, max_requests, clock, recorded, denied_oldest, thread_vars>>

\* record_message(user_id), one call run to completion; the clock is read at
\* line 60 (inside can_send_message) and again at line 86, up to MaxDelay
\* clock values later
record_message(user_id) ==
    \E current_time \in times_within(clock, MaxDelay) :
        LET check_time == clock
            h == cleanup_window(request_history, user_id, check_time)
        IN  IF ~can_send_decision(h, user_id)
            THEN /\ current_time = check_time
                 /\ request_history' = h
                 /\ last' = Returned("record_message", user_id, FALSE, None, "", check_time, None)
                 /\ denied_oldest' = [denied_oldest EXCEPT ![user_id] =
                                         IF @ = None THEN Head(h[user_id]) ELSE @]
                 /\ UNCHANGED <<window_size, max_requests, clock, recorded, thread_vars>>
            ELSE /\ clock' = current_time
                 /\ request_history' =
                        LET d == IF user_id \notin DOMAIN h THEN <<>> ELSE h[user_id]
                        IN  dict_set(h, user_id, deque_append(d, current_time))
                 /\ last' = Returned("record_message", user_id, TRUE, None, "",
                                     check_time, current_time)
                 /\ recorded' = [u \in Users |->
                        forget_expired(IF u = user_id THEN Append(recorded[u], current_time)
                                                      ELSE recorded[u], current_time)]
                 /\ denied_oldest' = [denied_oldest EXCEPT ![user_id] = None]
                 /\ UNCHANGED <<window_size, max_requests, thread_vars>>

\* What time_until_next_allowed(user_id) gives at clock value current_time on
\* dict h: the number it returns, or the exception that leaves it.  Line 111
\* subscripts the dict after the cleanup: when the cleanup has deleted the
\* key, the subscript raises KeyError.
time_until_outcome(h, user_id, current_time) ==
    IF user_id \notin DOMAIN h
    THEN [wait |-> 0, raised |-> ""]
    ELSE LET h2 == cleanup_window(h, user_id, current_time)
         IN  IF user_id \notin DOMAIN h2
             THEN [wait |-> None, raised |-> "KeyError"]
             ELSE IF h2[user_id] = <<>> \/ Len(h2[user_id]) < max_requests
             THEN [wait |-> 0, raised |-> ""]
             ELSE [wait |-> wait_time(h2, user_id, current_time), raised |-> ""]

\* time_until_next_allowed(user_id), one call run to completion
time_until_next_allowed(user_id) ==
    LET current_time == clock
        out == time_until_outcome(request_history, user_id, current_time)
    IN  /\ request_history' = cleanup_window(request_history, user_id, current_time)
        /\ last' = Returned("time_until_next_allowed", user_id, FALSE, out.wait, out.raised,
                            current_time, None)
        /\ UNCHANGED <<window_size, max_requests, clock, recorded, denied_oldest, thread_vars>>

Next ==
    \/ Tick
    \/ \E u \in Users : can_send_message(u)
    \/ \E u \in Users : record_message(u)
    \/ \E u \in Users : time_until_next_allowed(u)

Spec == Init /\ [][Next]_vars

\* __init__ as written stores its arguments without checking them (lines
\* 22-24): a window_size of 0 and a max_requests of 0 construct a limiter too
InitAnyConfig ==
    /\ window_size \in 0..MaxWindow
    /\ max_requests \in 0..MaxRequests
    /\ request_history = <<>>
    /\ clock = 0
    /\ last = NoCall
    /\ recorded = [u \in Users |-> <<>>]
    /\ denied_oldest = [u \in Users |-> None]
    /\ pc = [t \in Threads |-> "idle"]
    /\ t_user = [t \in Threads |-> ""]
    /\ t_now = [t \in Threads |-> None]
    /\ t_time = [t \in Threads |-> None]
    /\ t_ref = [t \in Threads |-> "none"]
    /\ t_deque = [t \in Threads |-> <<>>]
    /\ t_outcome = [t \in Threads |-> ""]

SpecAnyConfig == InitAnyConfig /\ [][Next]_vars

\* ======================================================================
\* Concurrent callers of record_message.  The class takes no lock, so the
\* source lines of two calls interleave, inside can_send_message and
\* _cleanup_window too.  Each action below is one source line of one thread.
\*
\* The local user_timestamps of _cleanup_window is a reference to a deque
\* object.  While the dict still maps the key to that object the reference is
\* "live" and the deque is request_history[user_id]; when another thread
\* deletes the key (line 52) or binds it to a new deque (line 90) the
\* reference is an "orphan" and the object lives on in t_deque.  With two
\* threads the thread that drops the object never keeps its own reference,
\* so an orphan has one holder.
\* ======================================================================

\* the deque the local user_timestamps of thread t refers to
thread_deque(t) ==
    IF t_ref[t] = "live" THEN request_history[t_user[t]] ELSE t_deque[t]

\* the references of the other threads after thread t has taken the deque of
\* key user_id out of the dict
refs_after_drop(t, user_id) ==
    [s \in Threads |->
        IF s = t THEN "none"
        ELSE IF t_ref[s] = "live" /\ t_user[s] = user_id THEN "orphan"
        ELSE t_ref[s]]

deques_after_drop(t, user_id) ==
    [s \in Threads |->
        IF s = t THEN <<>>
        ELSE IF t_ref[s] = "live" /\ t_user[s] = user_id THEN request_history[user_id]
        ELSE t_deque[s]]

\* the call of thread t is over: it returned or raised outcome
call_ends(t, outcome) ==
    /\ pc' = [pc EXCEPT ![t] = "idle"]
    /\ t_user' = [t_user EXCEPT ![t] = ""]
    /\ t_now' = [t_now EXCEPT ![t] = None]
    /\ t_time' = [t_time EXCEPT ![t] = None]
    /\ t_ref' = [t_ref EXCEPT ![t] = "none"]
    /\ t_deque' = [t_deque EXCEPT ![t] = <<>>]
    /\ t_outcome' = [t_outcome EXCEPT ![t] = outcome]

\* thread t goes on to line label
goes_to(t, label) ==
    /\ pc' = [pc EXCEPT ![t] = label]
    /\ UNCHANGED <<t_user, t_now, t_time, t_ref, t_deque, t_outcome>>

\* lines 82 and 60: record_message calls can_send_message, which reads the clock
cs_clock(t, user_id) ==
    /\ pc[t] = "idle"
    /\ pc' = [pc EXCEPT ![t] = "l37"]
    /\ t_user' = [t_user EXCEPT ![t] = user_id]
    /\ t_now' = [t_now EXCEPT ![t] = clock]
    /\ t_outcome' = [t_outcome EXCEPT ![t] = ""]
    /\ UNCHANGED <<window_size, max_requests, request_history, clock, observer_vars,
                   t_time, t_ref, t_deque>>

\* lines 37-38: if user_id not in self.request_history: return
cw_present(t) ==
    /\ pc[t] = "l37"
    /\ goes_to(t, IF t_user[t] \notin DOMAIN request_history THEN "l67" ELSE "l41")
    /\ UNCHANGED <<window_size, max_requests, request_history, clock, observer_vars>>

\* line 41: user_timestamps = self.request_history[user_id]; KeyError when
\* the key has been deleted since line 37
cw_load(t) ==
    /\ pc[t] = "l41"
    /\ IF t_user[t] \notin DOMAIN request_history
       THEN call_ends(t, "KeyError")
       ELSE /\ pc' = [pc EXCEPT ![t] = "l46"]
            /\ t_ref' = [t_ref EXCEPT ![t] = "live"]
            /\ UNCHANGED <<t_user, t_now, t_time, t_deque, t_outcome>>
    /\ UNCHANGED <<window_size, max_requests, request_history, clock, observer_vars>>

\* line 46: while user_timestamps and user_timestamps[0] <= current_time - self.window_size
cw_test(t) ==
    /\ pc[t] = "l46"
    /\ LET user_timestamps == thread_deque(t)
       IN  goes_to(t, IF /\ user_timestamps # <<>>
                         /\ Head(user_timestamps) <= float_sub(t_now[t], float_of_int(window_size))
                      THEN "l48" ELSE "l51")
    /\ UNCHANGED <<window_size, max_requests, request_history, clock, observer_vars>>

\* line 48: user_timestamps.popleft(); IndexError when the deque has been
\* emptied since line 46.  The head it removes is the head now, not the one
\* line 46 looked at.
cw_popleft(t) ==
    /\ pc[t] = "l48"
    /\ IF thread_deque(t) = <<>>
       THEN /\ call_ends(t, "IndexError")
            /\ UNCHANGED request_history
       ELSE /\ pc' = [pc EXCEPT ![t] = "l46"]
            /\ IF t_ref[t] = "live"
               THEN /\ request_history' = [request_history EXCEPT ![t_user[t]] = Tail(@)]
                    /\ UNCHANGED t_deque
               ELSE /\ t_deque' = [t_deque EXCEPT ![t] = Tail(@)]
                    /\ UNCHANGED request_history
            /\ UNCHANGED <<t_user, t_now, t_time, t_ref, t_outcome>>
    /\ UNCHANGED <<window_size, max_requests, clock, observer_vars>>

\* line 51: if not user_timestamps; otherwise _cleanup_window returns and its
\* local is gone
cw_empty(t) ==
    /\ pc[t] = "l51"
    /\ IF thread_deque(t) = <<>>
       THEN goes_to(t, "l52")
       ELSE /\ pc' = [pc EXCEPT ![t] = "l67"]
            /\ t_ref' = [t_ref EXCEPT ![t] = "none"]
            /\ t_deque' = [t_deque EXCEPT ![t] = <<>>]
            /\ UNCHANGED <<t_user, t_now, t_time, t_outcome>>
    /\ UNCHANGED <<window_size, max_requests, request_history, clock, observer_vars>>

\* line 52: del self.request_history[user_id]; KeyError when the key is
\* already gone.  It deletes whichever deque the key is bound to now.
cw_del(t) ==
    /\ pc[t] = "l52"
    /\ IF t_user[t] \notin DOMAIN request_history
       THEN /\ call_ends(t, "KeyError")
            /\ UNCHANGED request_history
       ELSE /\ request_history' = dict_del(request_history, t_user[t])
            /\ pc' = [pc EXCEPT ![t] = "l67"]
            /\ t_ref' = refs_after_drop(t, t_user[t])
            /\ t_deque' = deques_after_drop(t, t_user[t])
            /\ UNCHANGED <<t_user, t_now, t_time, t_outcome>>
    /\ UNCHANGED <<window_size, max_requests, clock, observer_vars>>

\* lines 67-68: if user_id not in self.request_history or not
\* self.request_history[user_id]: return True
cs_absent(t) ==
    /\ pc[t] = "l67"
    /\ goes_to(t, IF \/ t_user[t] \notin DOMAIN request_history
                     \/ request_history[t_user[t]] = <<>>
                  THEN "l86" ELSE "l73")
    /\ UNCHANGED <<window_size, max_requests, request_history, clock, observer_vars>>

\* lines 73 and 82-83: return len(self.request_history[user_id]) <
\* self.max_requests, and record_message returns False when that is False;
\* KeyError when the key has been deleted since line 67
cs_len(t) ==
    /\ pc[t] = "l73"
    /\ IF t_user[t] \notin DOMAIN request_history
       THEN call_ends(t, "KeyError")
       ELSE IF Len(request_history[t_user[t]]) < max_requests
       THEN goes_to(t, "l86")
       ELSE call_ends(t, "False")
    /\ UNCHANGED <<window_size, max_requests, request_history, clock, observer_vars>>

\* line 86: current_time = time.perf_counter()
rm_stamp(t) ==
    /\ pc[t] = "l86"
    /\ t_time' = [t_time EXCEPT ![t] = clock]
    /\ pc' = [pc EXCEPT ![t] = "l89"]
    /\ UNCHANGED <<window_size, max_requests, request_history, clock, observer_vars,
                   t_user, t_now, t_ref, t_deque, t_outcome>>

\* line 89: if user_id not in self.request_history
rm_init_test(t) ==
    /\ pc[t] = "l89"
    /\ goes_to(t, IF t_user[t] \notin DOMAIN request_history THEN "l90" ELSE "l93")
    /\ UNCHANGED <<window_size, max_requests, request_history, clock, observer_vars>>

\* line 90: self.request_history[user_id] = deque(); a deque another thread
\* has bound to the key since line 89 is dropped from the dict
rm_init_set(t) ==
    /\ pc[t] = "l90"
    /\ request_history' = dict_set(request_history, t_user[t], <<>>)
    /\ pc' = [pc EXCEPT ![t] = "l93"]
    /\ IF t_user[t] \in DOMAIN request_history
       THEN /\ t_ref' = refs_after_drop(t, t_user[t])
            /\ t_deque' = deques_after_drop(t, t_user[t])
       ELSE UNCHANGED <<t_ref, t_deque>>
    /\ UNCHANGED <<window_size, max_requests, clock, observer_vars,
                   t_user, t_now, t_time, t_outcome>>

\* lines 93-94: self.request_history[user_id].append(current_time); return True.
\* The subscript raises KeyError when another thread's cleanup has deleted the
\* key; either way the call is over.
rm_append(t) ==
    /\ pc[t] = "l93"
    /\ IF t_user[t] \notin DOMAIN request_history
       THEN /\ call_ends(t, "KeyError")
            /\ UNCHANGED request_history
       ELSE /\ call_ends(t, "True")
            /\ request_history' = [request_history EXCEPT ![t_user[t]] =
                                       deque_append(@, t_time[t])]
    /\ UNCHANGED <<window_size, max_requests, clock, observer_vars>>

\* time passes between two steps of the threads
TickConc ==
    /\ clock < float_of_int(MaxTimeConc)
    /\ Tick

NextConc ==
    \/ TickConc
    \/ \E t \in Threads, u \in Users : cs_clock(t, u)
    \/ \E t \in Threads : cw_present(t)
    \/ \E t \in Threads : cw_load(t)
    \/ \E t \in Threads : cw_test(t)
    \/ \E t \in Threads : cw_popleft(t)
    \/ \E t \in Threads : cw_empty(t)
    \/ \E t \in Threads : cw_del(t)
    \/ \E t \in Threads : cs_absent(t)
    \/ \E t \in Threads : cs_len(t)
    \/ \E t \in Threads : rm_stamp(t)
    \/ \E t \in Threads : rm_init_test(t)
    \/ \E t \in Threads : rm_init_set(t)
    \/ \E t \in Threads : rm_append(t)

SpecConc == Init /\ [][NextConc]_vars

TypeOK ==
    /\ window_size \in 1..MaxWindow
    /\ max_requests \in 1..MaxRequests
    /\ DOMAIN request_history \subseteq Users
    /\ clock \in clock_times
    /\ \A u \in DOMAIN request_history :
          \A i \in 1..Len(request_history[u]) : request_history[u][i] \in clock_times

Calls == {"can_send_message", "record_message", "time_until_next_allowed"}

\* ======================================================================
\* Claims, sequential runs (Spec)
\* ======================================================================

\* C1: Capacity invariant. In every state reachable by sequential calls under
\* a non-decreasing clock, each key's log holds at most max_requests
\* timestamps inside the current window (clock - window_size, clock], and the
\* log itself (in particular right after an eviction of the key) is never
\* longer than max_requests.
C1_Capacity ==
    \A u \in DOMAIN request_history :
        /\ in_window_count(request_history[u], clock) <= max_requests
        /\ Len(request_history[u]) <= max_requests

\* C1 witness: a record_message call was denied on a key whose log, after the
\* eviction of that call, holds exactly max_requests timestamps, all in the window.
C1_Witness ==
    /\ last.op = "record_message"
    /\ last.result = FALSE
    /\ last.user \in DOMAIN request_history
    /\ max_requests = 2
    /\ Len(request_history[last.user]) = max_requests
    /\ in_window_count(request_history[last.user], clock) = max_requests

\* C3: Admission correctness. A record_message call for a key that begins
\* when max_requests (or more) timestamps admitted for that key are less than
\* window_size old returns False.
C3_AdmissionCorrectness ==
    (last.op = "record_message" /\ last.active >= max_requests) => last.result = FALSE

\* C3 witness: the (N+1)-th call is denied with exactly N earlier admissions
\* in its window, N = 2, the oldest of them from an earlier clock value.
C3_Witness ==
    /\ last.op = "record_message"
    /\ last.result = FALSE
    /\ max_requests = 2
    /\ last.active = max_requests
    /\ Head(request_history[last.user]) < last.now

\* C4: Window expiry. After record_message was denied for a key whose oldest
\* retained timestamp was t_oldest, and with no admission for that key since,
\* a record_message call for the key that reads the clock at any value
\* >= t_oldest + window_size (that value included) returns True.
C4_WindowExpiry ==
    (/\ last.op = "record_message"
     /\ last.denied # None
     /\ last.now >= last.denied + float_of_int(window_size)) => last.result = TRUE

\* C4 witness: a call exactly at t_oldest + window_size after a denial is admitted.
C4_Witness ==
    /\ last.op = "record_message"
    /\ last.denied # None
    /\ last.now = last.denied + float_of_int(window_size)
    /\ last.result = TRUE

\* C5: can_send_message agrees with the reference decision: it returns True
\* exactly when fewer than max_requests timestamps appended for the key lie in
\* (now - window_size, now].
C5_ReferenceDecision ==
    last.op = "can_send_message" => (last.result <=> last.active < max_requests)

\* C5 witness: a key that was recorded before, with exactly max_requests - 1
\* timestamps still active, is admitted at a clock value at which earlier
\* timestamps can have expired.
C5_Witness ==
    /\ last.op = "can_send_message"
    /\ last.seen
    /\ max_requests = 2
    /\ last.active = max_requests - 1
    /\ last.result = TRUE
    /\ last.now >= float_of_int(window_size)

\* C7 as stated: Wait-time projection. When the log after the eviction of a
\* time_until_next_allowed call holds max_requests timestamps, the call
\* returns oldest_timestamp + window_size - now, which is > 0; and every value
\* the call returns is >= 0.
C7_WaitTime ==
    last.op = "time_until_next_allowed" /\ last.raised = "" =>
        /\ last.wait >= 0
        /\ (/\ last.user \in DOMAIN request_history
            /\ Len(request_history[last.user]) = max_requests) =>
                /\ last.wait = Head(request_history[last.user]) + float_of_int(window_size) - last.now
                /\ last.wait > 0

\* C7: Wait-time projection in floating point. Every value
\* time_until_next_allowed returns is >= 0.  When the log after the eviction
\* holds max_requests timestamps, the value differs from the exact
\* oldest_timestamp + window_size - now by at most the spacing of the
\* floating-point numbers around oldest_timestamp + window_size (the sum and
\* the difference are each rounded once); it is that exact value, and > 0,
\* whenever the exact sum and the exact difference are floating-point numbers.
C7_WaitTimeRounded ==
    last.op = "time_until_next_allowed" /\ last.raised = "" =>
        /\ last.wait >= 0
        /\ (/\ last.user \in DOMAIN request_history
            /\ Len(request_history[last.user]) = max_requests) =>
                LET exact_allow == Head(request_history[last.user]) + float_of_int(window_size)
                    exact_wait == exact_allow - last.now
                IN  /\ last.wait - exact_wait <= spacing(exact_allow)
                    /\ exact_wait - last.wait <= spacing(exact_allow)
                    /\ (is_float(exact_allow) /\ is_float(exact_wait)) =>
                          (last.wait = exact_wait /\ last.wait > 0)

\* C7 witness: a saturated key with two different timestamps gets a positive
\* wait that is shorter than the window.
C7_Witness ==
    /\ last.op = "time_until_next_allowed"
    /\ last.user \in DOMAIN request_history
    /\ Len(request_history[last.user]) = max_requests
    /\ max_requests = 2
    /\ Head(request_history[last.user]) < request_history[last.user][2]
    /\ last.wait > 0
    /\ last.wait < float_of_int(window_size)

\* a saturated key for which time_until_next_allowed returns 0: the sum
\* oldest_timestamp + window_size was rounded down to the time of the call
C7_ZeroWaitWhileSaturated ==
    /\ last.op = "time_until_next_allowed"
    /\ last.raised = ""
    /\ last.user \in DOMAIN request_history
    /\ Len(request_history[last.user]) = max_requests
    /\ last.wait = 0
    /\ Head(request_history[last.user]) + float_of_int(window_size) > last.now

\* C9: Presence invariant. After every completed call of a sequential run no
\* key of request_history maps to an empty log: a key is present exactly when
\* its log is non-empty.
C9_Presence ==
    \A u \in DOMAIN request_history : request_history[u] # <<>>

\* C9 witness: a call has just removed a key whose log it emptied, while the
\* other key is still present.
C9_Witness ==
    /\ last.op \in Calls
    /\ last.seen
    /\ last.user \notin DOMAIN request_history
    /\ DOMAIN request_history # {}

\* C10: No idle-key leak. In every reachable state a present key has a
\* timestamp inside the current window (clock - window_size, clock]: once
\* all of a key's events have expired the key is absent from request_history.
\* _cleanup_window runs only inside a call for the same key, so a key nobody
\* calls for again stays in request_history with expired timestamps only.
C10_NoIdleKey ==
    \A u \in DOMAIN request_history : in_window_count(request_history[u], clock) >= 1

\* ----------------------------------------------------------------------
\* C6: time_until_next_allowed returns 0 whenever can_send_message at the
\* same instant would return True (key absent, log emptied by the eviction,
\* or log shorter than max_requests).
C6_ZeroWaitWhenAdmissible ==
    (/\ last.op = "time_until_next_allowed"
     /\ can_send_decision(cleanup_window(request_history, last.user, last.now), last.user))
        => (last.raised = "" /\ last.wait = 0)

\* C8: Memory reclamation seen through behaviour. A call for a key all of
\* whose appended timestamps have expired returns what the same call returns
\* for a never-seen key and leaves the same per-key state.
C8_ExpiredKeyLikeNeverSeen ==
    (last.op \in Calls /\ last.seen /\ last.active = 0) =>
        CASE last.op = "can_send_message" ->
                 last.result = TRUE /\ last.user \notin DOMAIN request_history
          [] last.op = "record_message" ->
                 /\ last.result = TRUE
                 /\ last.user \in DOMAIN request_history
                 /\ request_history[last.user] = <<last.stamp>>
          [] last.op = "time_until_next_allowed" ->
                 /\ last.raised = ""
                 /\ last.wait = 0
                 /\ last.user \notin DOMAIN request_history

\* ----------------------------------------------------------------------
\* the deque of key u in dict h, empty when the key is absent
log_of(h, u) == IF u \in DOMAIN h THEN h[u] ELSE <<>>

\* new is old with some expired timestamps popped from its head, nothing else
is_eviction_only(old, new, now) ==
    \E k \in 0..Len(old) :
        /\ new = SubSeq(old, k + 1, Len(old))
        /\ \A i \in 1..k : old[i] <= now - float_of_int(window_size)

\* this step leaves every key other than u as it was
others_unchanged(u) ==
    \A v \in Users \ {u} :
        /\ (v \in DOMAIN request_history') <=> (v \in DOMAIN request_history)
        /\ log_of(request_history', v) = log_of(request_history, v)

\* C12: Only an admitted record adds state. can_send_message,
\* time_until_next_allowed and a denied record_message change request_history
\* at most by popping expired timestamps of the queried key (every unexpired
\* timestamp stays, nothing is appended); an admitted record_message appends
\* exactly one timestamp to the queried key's log.
C12_FrameEffect ==
    [][last'.op \in Calls =>
        LET u == last'.user
            query == \/ last'.op = "can_send_message" /\ can_send_message(u)
                     \/ last'.op = "time_until_next_allowed" /\ time_until_next_allowed(u)
            record == last'.op = "record_message" /\ record_message(u)
        IN  /\ (query \/ (record /\ last'.result = FALSE))
               => /\ others_unchanged(u)
                  /\ is_eviction_only(log_of(request_history, u),
                                      log_of(request_history', u), clock)
            /\ (record /\ last'.result = TRUE)
               => /\ others_unchanged(u)
                  /\ u \in DOMAIN request_history'
                  /\ LET new == request_history'[u]
                     IN  /\ new # <<>>
                         /\ new[Len(new)] = last'.stamp
                         /\ is_eviction_only(log_of(request_history, u),
                                             SubSeq(new, 1, Len(new) - 1), clock)
    ]_vars

\* C12 witness: an admitted record_message, after an earlier denial, popped
\* the expired head, kept the unexpired timestamp and appended its own.
C12_Witness ==
    /\ last.op = "record_message"
    /\ last.result = TRUE
    /\ last.denied # None
    /\ max_requests = 2
    /\ last.user \in DOMAIN request_history
    /\ Len(request_history[last.user]) = 2
    /\ request_history[last.user][1] > last.denied
    /\ request_history[last.user][2] = last.stamp

\* C13: Idempotent query. A can_send_message or time_until_next_allowed call
\* gives the same result when it is repeated at the same instant, and making
\* it does not change what any later can_send_message, record_message or
\* time_until_next_allowed call returns, at that instant or a later one, for
\* any key. (record_message returns what can_send_message returns.)
C13_IdempotentQuery ==
    [][\A u \in Users :
        (can_send_message(u) \/ time_until_next_allowed(u)) =>
            /\ can_send_message(u) =>
                  can_send_decision(cleanup_window(request_history', u, clock), u)
                      = last'.result
            /\ time_until_next_allowed(u) =>
                  time_until_outcome(request_history', u, clock)
                      = [wait |-> last'.wait, raised |-> last'.raised]
            /\ \A v \in Users, t \in {clock} \cup later_times(clock) :
                  /\ can_send_decision(cleanup_window(request_history', v, t), v)
                        = can_send_decision(cleanup_window(request_history, v, t), v)
                  /\ time_until_outcome(request_history', v, t)
                        = time_until_outcome(request_history, v, t)
    ]_vars

\* the wait the appended timestamps s of one key call for at clock value now:
\* 0 below the limit, else the time until the oldest one in the window leaves it
reference_wait(s, now) ==
    LET active == {s[i] : i \in {j \in 1..Len(s) : s[j] > now - float_of_int(window_size) /\ s[j] <= now}}
    IN  IF in_window_count(s, now) < max_requests
        THEN 0
        ELSE LET oldest == CHOOSE t \in active : \A x \in active : t <= x
                 time_to_wait == float_sub(float_add(oldest, float_of_int(window_size)), now)
             IN  IF time_to_wait > 0 THEN time_to_wait ELSE 0

\* C14: Per-key independence. A call for key A leaves the presence and the log
\* of every other key B unchanged, and what a call for B returns (admission,
\* wait) is a function of the timestamps recorded for B alone.
C14_PerKeyIndependence ==
    [][last'.op \in Calls =>
        LET u == last'.user
        IN  /\ (\/ last'.op = "can_send_message" /\ can_send_message(u)
                \/ last'.op = "record_message" /\ record_message(u)
                \/ last'.op = "time_until_next_allowed" /\ time_until_next_allowed(u))
               => others_unchanged(u)
            /\ last'.op \in {"can_send_message", "record_message"} =>
                  (last'.result <=> last'.active < max_requests)
            /\ (last'.op = "time_until_next_allowed" /\ last'.raised = "") =>
                  last'.wait = reference_wait(recorded[u], last'.now)
    ]_vars

\* C14 witness: two keys were each recorded once at the same clock value and
\* both were admitted, with max_requests = 1.
C14_Witness ==
    /\ last.op = "record_message"
    /\ last.result = TRUE
    /\ max_requests = 1
    /\ \E v \in DOMAIN request_history \ {last.user} :
          request_history[v] = <<last.stamp>>

\* C15: Monotone log (sequential). In every state of a sequential run under a
\* non-decreasing clock, each key's timestamps are in non-decreasing order
\* from head to tail.
C15_MonotoneLog ==
    \A u \in DOMAIN request_history :
        \A i, j \in 1..Len(request_history[u]) :
            i < j => request_history[u][i] <= request_history[u][j]

\* C15 witness: an admitted record_message has appended a timestamp later than
\* the one already in the log.
C15_Witness ==
    /\ last.op = "record_message"
    /\ last.result = TRUE
    /\ Len(request_history[last.user]) = 2
    /\ request_history[last.user][1] < request_history[last.user][2]

\* the timestamps of s that are still inside the window at clock value now
unexpired(s, now) == SelectSeq(s, LAMBDA t : t > now - float_of_int(window_size))

\* C16: Eviction is exact and boundary-exclusive. The cleanup run by a query
\* for a present key leaves exactly the timestamps t of the previous log with
\* t > now - window_size, in their order (t = now - window_size is removed);
\* what it removes is a head segment, so nothing removed is newer than
\* something kept; the key is deleted when nothing is kept. For an absent key
\* it changes nothing.
C16_ExactEviction ==
    [][last'.op \in {"can_send_message", "time_until_next_allowed"} =>
        LET u == last'.user
        IN  (\/ last'.op = "can_send_message" /\ can_send_message(u)
             \/ last'.op = "time_until_next_allowed" /\ time_until_next_allowed(u)) =>
            IF u \notin DOMAIN request_history
            THEN request_history' = request_history
            ELSE LET old == request_history[u]
                     kept == unexpired(old, clock)
                 IN  /\ log_of(request_history', u) = kept
                     /\ (u \in DOMAIN request_history') <=> (kept # <<>>)
                     /\ is_eviction_only(old, kept, clock)
                     /\ \A i, j \in 1..Len(old) :
                           (old[i] <= clock - float_of_int(window_size) /\ old[j] > clock - float_of_int(window_size))
                               => old[i] <= old[j] /\ i < j
    ]_vars

\* C16 witness: after a denial whose oldest timestamp was t_oldest, a
\* can_send_message call has removed t_oldest and kept a newer timestamp.
C16_Witness ==
    /\ last.op = "can_send_message"
    /\ last.user \in DOMAIN request_history
    /\ last.denied # None
    /\ last.now >= last.denied + float_of_int(window_size)
    /\ Head(request_history[last.user]) > last.denied

\* C17: Same-instant evaluation. The timestamp an admitted record_message
\* appends equals the clock value at which its eviction and length check were
\* made, even if the clock advances while the call runs.
C17_SameInstant ==
    (last.op = "record_message" /\ last.result = TRUE) => last.stamp = last.now

\* ======================================================================
\* Claims, concurrent callers (SpecConc)
\* ======================================================================

\* C2: Atomic check-and-append. With two or more threads calling
\* record_message concurrently, in every interleaving the number of
\* timestamps of a key inside one window never exceeds max_requests.
C2_AtomicCheckAndAppend ==
    \A u \in DOMAIN request_history :
        in_window_count(request_history[u], clock) <= max_requests

\* ======================================================================
\* Claims, any constructor arguments (SpecAnyConfig)
\* ======================================================================

\* C11: Construction-time validation. No limiter exists with window_size <= 0
\* or max_requests < 1, so no call ever runs (and no record_message returns
\* True) under such a configuration.
C11_ValidatedAtConstruction ==
    last.op \in Calls => (window_size > 0 /\ max_requests >= 1)

\* C18: Ordering under concurrency. With several threads calling
\* record_message for the same key, every interleaving leaves the key's log
\* in non-decreasing order: no timestamp is followed by an earlier one.
C18_OrderedUnderConcurrency ==
    \A u \in DOMAIN request_history :
        \A i \in 1..(Len(request_history[u]) - 1) :
            request_history[u][i] <= request_history[u][i + 1]
====
